---- MODULE Spec2Model ----
(***************************************************************************)
(* Model of the errbot Duo2fa plugin (src/duo2fa.py): the command filter   *)
(* duo2fa_filter, the filtered-command registry kept in the plugin store,  *)
(* the two lru_cache-wrapped lookups (get_user_email, preauth_user) and    *)
(* the argument parser parse_2fa_args.                                     *)
(*                                                                         *)
(* Python strings that the code takes apart (the command arguments) are    *)
(* sequences of one-character strings; strings the code only compares      *)
(* (command names, e-mail addresses, provider results) are TLA+ strings.   *)
(***************************************************************************)
EXTENDS Integers, Sequences, FiniteSets, TLC

\* ------------------------------------------------------------------------
\* Bounds of the model (not program constants)
\* ------------------------------------------------------------------------

\* The argument strings given to parse_2fa_args hold at most this many words.
MaxTokens == 3

\* Restarts of the bot are unbounded; the model starts it at most this many
\* times.
MaxBoots == 2

\* Cache statistics counters (hits, misses) are unbounded in the code; a new
\* filter invocation starts only while both are below this bound.
MaxCount == 2

\* ------------------------------------------------------------------------
\* Program constants
\* ------------------------------------------------------------------------

\* @lru_cache(maxsize=256) on get_user_email
EmailCacheSize == 256

\* @lru_cache(maxsize=4) on preauth_user
PreauthCacheSize == 4

\* ------------------------------------------------------------------------
\* Python string primitives used by parse_2fa_args
\* ------------------------------------------------------------------------

\* Python's None, as a value comparable with the character sequences.
None == <<"<None>">>

SPACE == " "

\* The literal "--2fa"
TWOFA == <<"-", "-", "2", "f", "a">>

\* The literal "--" of twofa_method.startswith("--")
DASHDASH == <<"-", "-">>

\* The literal "auto"
AUTO == <<"a", "u", "t", "o">>

\* s.startswith(prefix)
StartsWith(s, prefix) ==
    /\ Len(s) >= Len(prefix)
    /\ SubSeq(s, 1, Len(prefix)) = prefix

\* sub in s  (substring test)
Contains(s, sub) ==
    \E i \in 1..(Len(s) - Len(sub) + 1) : SubSeq(s, i, i + Len(sub) - 1) = sub

\* s.split(" "): cut at every single space; empty pieces are kept, and the
\* empty string gives one empty piece.
RECURSIVE Split(_)
Split(s) ==
    IF \A i \in 1..Len(s) : s[i] # SPACE
    THEN <<s>>
    ELSE LET p == CHOOSE i \in 1..Len(s) :
                     /\ s[i] = SPACE
                     /\ \A j \in 1..(i - 1) : s[j] # SPACE
         IN  <<SubSeq(s, 1, p - 1)>> \o Split(SubSeq(s, p + 1, Len(s)))

\* " ".join(list)
RECURSIVE Join(_)
Join(list) ==
    IF list = <<>> THEN <<>>
    ELSE IF Len(list) = 1 THEN list[1]
    ELSE list[1] \o <<SPACE>> \o Join(Tail(list))

\* list.index(x): the first position of x, 0 standing for ValueError
Index(list, x) ==
    IF \E i \in 1..Len(list) : list[i] = x
    THEN CHOOSE i \in 1..Len(list) :
             /\ list[i] = x
             /\ \A j \in 1..(i - 1) : list[j] # x
    ELSE 0

\* del list[pos]
Del(list, pos) == SubSeq(list, 1, pos - 1) \o SubSeq(list, pos + 1, Len(list))

\* One character of str.lower(): the upper-case letters of the alphabet used
LowerChar(c) ==
    CASE c = "S" -> "s"
      [] c = "M" -> "m"
      [] c = "A" -> "a"
      [] OTHER   -> c

\* s.lower()
Lower(s) == [i \in 1..Len(s) |-> LowerChar(s[i])]

\* ------------------------------------------------------------------------
\* parse_2fa_args
\* ------------------------------------------------------------------------

\* parse_2fa_args(args) -> (twofa_method, args).  raised: args_list.index
\* raised ValueError ("--2fa" occurs in args but is no word of its own).
parse_2fa_args(args) ==
    IF ~Contains(args, TWOFA)
    THEN [raised |-> FALSE, method |-> None, args |-> args]
    ELSE LET args_list == Split(args)
             twofa_position == Index(args_list, TWOFA)
         IN  IF twofa_position = 0
             THEN [raised |-> TRUE, method |-> None, args |-> args]
             ELSE IF twofa_position + 1 > Len(args_list)
                     \/ StartsWith(args_list[twofa_position + 1], DASHDASH)
             THEN [raised |-> FALSE, method |-> AUTO,
                   args |-> Join(Del(args_list, twofa_position))]
             ELSE [raised |-> FALSE,
                   method |-> Lower(args_list[twofa_position + 1]),
                   args |-> Join(Del(Del(args_list, twofa_position + 1),
                                     twofa_position))]

\* ------------------------------------------------------------------------
\* functools.lru_cache (bounded): a cache is the sequence of its entries,
\* least recently used first
\* ------------------------------------------------------------------------

LruHas(cache, key) == \E i \in 1..Len(cache) : cache[i].key = key

LruPos(cache, key) == CHOOSE i \in 1..Len(cache) : cache[i].key = key

\* LruValue answering with the oldest entry's value, whatever the key.
LruValue_oldest(cache, key) == cache[1].val

LruValue(cache, key) == cache[LruPos(cache, key)].val

\* A hit moves the entry to the most-recently-used end.
LruTouch(cache, key) ==
    Del(cache, LruPos(cache, key)) \o <<cache[LruPos(cache, key)]>>

\* LruInsert with no eviction: a full cache grows.
LruInsert_neverEvicts(cache, maxsize, key, val) ==
    IF LruHas(cache, key) THEN cache
    ELSE Append(cache, [key |-> key, val |-> val])

\* The store after the wrapped function returned: nothing if the key was
\* added meanwhile, a new entry if the cache is not full, else the oldest
\* entry is replaced.
LruInsert(cache, maxsize, key, val) ==
    IF LruHas(cache, key) THEN cache
    ELSE IF Len(cache) < maxsize
    THEN Append(cache, [key |-> key, val |-> val])
    ELSE Append(Tail(cache), [key |-> key, val |-> val])

\* LruStore with a failure kept like a result: the wrapped function's
\* exception is stored under the key.
LruStore_keepsFailure(cache, maxsize, key, raised, val) ==
    LruInsert(cache, maxsize, key, val)

\* What the wrapper does when the wrapped function has ended: an exception
\* passes through and nothing is stored, a result is stored.
LruStore(cache, maxsize, key, raised, val) ==
    IF raised THEN cache ELSE LruInsert(cache, maxsize, key, val)

\* ------------------------------------------------------------------------
\* Domains of the inputs
\* ------------------------------------------------------------------------

\* Command names of the bot
Cmds == {"echo", "status"}

\* msg.frm.user_id of the callers
Users == {"u1"}

\* self._bot.mode: the test backend, slack, and any other backend
Modes == {"test", "slack", "text"}

\* The e-mail address slack's users.info holds for a user
SlackEmail(user) == IF user = "u1" THEN "u1@corp" ELSE "other@corp"

\* status_msg texts of duo's preauth and of duo's auth
PreauthMsgs == {"preauth-msg"}

AuthMsgs == {"auth-msg"}

\* result values of duo's preauth: the four documented ones and one other
PreauthResults == {"allow", "deny", "enroll", "auth", "pass"}

\* result values of duo's auth: the two documented ones and one other
AuthResults == {"allow", "deny", "pass"}

\* Argument strings of the filtered commands
ArgS == <<"s">>
ArgTwofa == <<"s", " ", "-", "-", "2", "f", "a">>
ArgTwofaSMS == <<"-", "-", "2", "f", "a", " ", "S", "M", "S">>
ArgTwofaX == <<"-", "-", "2", "f", "a", "x">>
ArgTwofaTwice == <<"-", "-", "2", "f", "a", " ", "-", "-", "2", "f", "a">>

ArgTwofaWord == <<"-", "-", "2", "f", "a", " ", "s">>

GateArgs ==
    {ArgS, ArgTwofa, ArgTwofaSMS, ArgTwofaX, ArgTwofaTwice, ArgTwofaWord}

\* Words the argument strings given to parse_2fa_args are made of: a plain
\* word, --2fa, another flag, an upper-case method, the empty word (two
\* spaces in a row, or a space at an end of the string), and a longer word
\* that holds --2fa.
ParseTokens ==
    {<<"s">>, TWOFA, <<"-", "-", "o">>, <<"S", "M", "S">>, <<>>, ArgTwofaX}

\* The sequences of at most n words
TokenSeqs(n) == UNION {[1..k -> ParseTokens] : k \in 0..n}

\* The argument strings given to parse_2fa_args: up to MaxTokens words with
\* one space between them
ParseArgs == {Join(ts) : ts \in TokenSeqs(MaxTokens)}

\* Contact addresses given to preauth_user when it is called on its own: one
\* more than its cache holds
CacheEmails == {"a@corp", "b@corp", "c@corp", "d@corp", "e@corp"}

\* result values duo's preauth gives for those addresses
CacheResults == {"allow", "deny"}

\* No value yet (a local variable not assigned)
Unset == "unset"

\* ------------------------------------------------------------------------
\* State
\* ------------------------------------------------------------------------

VARIABLES
    store,          \* self['filtered_commands']: the persisted set
    mode,           \* self._bot.mode
    email_cache,    \* the lru_cache of get_user_email
    email_hits,     \* its cache_info().hits
    email_misses,   \* its cache_info().misses
    preauth_cache,  \* the lru_cache of preauth_user
    frame,          \* the running duo2fa_filter call: its position and locals
    mut,            \* the threads running add_command / remove_command
    committed,      \* history: per name, the last add/remove that wrote back
    boots           \* history: how many times the plugin was activated

vars == <<store, mode, email_cache, email_hits, email_misses, preauth_cache,
          frame, mut, committed, boots>>

\* Threads that call add_command / remove_command
Mutators == {"a1", "a2"}

\* The filter when no call is running
IdleFrame ==
    [pc |-> "idle", cmd |-> Unset, raw |-> <<>>, args |-> <<>>,
     dry_run |-> FALSE, user_id |-> Unset, twofa_method |-> None,
     filtered_commands |-> {}, user_email |-> Unset, user_preauth |-> Unset,
     message |-> Unset, twofa_result |-> Unset, error |-> "none",
     sent |-> <<>>, calls |-> {}, decision |-> "none", cleared |-> {},
     evicted |-> {}]

IdleMutator ==
    [pc |-> "idle", command |-> Unset, cmds |-> {}, error |-> "none"]

\* activate() (lines 52-58): filtered_commands is the persisted set, created
\* empty only when the store holds none; the caches start empty.
Init ==
    /\ store \in SUBSET Cmds
    /\ mode \in Modes
    /\ email_cache = <<>>
    /\ email_hits = 0
    /\ email_misses = 0
    /\ preauth_cache = <<>>
    /\ frame = IdleFrame
    /\ mut = [m \in Mutators |-> IdleMutator]
    /\ committed = [c \in Cmds |-> "none"]
    /\ boots = 1

\* ------------------------------------------------------------------------
\* duo2fa_filter
\* ------------------------------------------------------------------------

\* self.send(msg.to, text=..., in_reply_to=msg): one message to the caller
Send(f, kind, detail) ==
    [f EXCEPT !.sent = Append(@, [kind |-> kind, detail |-> detail])]

\* return msg, cmd, args
Proceed(f) == [f EXCEPT !.pc = "done", !.decision = "proceed"]

\* return None, None, None
Block(f) == [f EXCEPT !.pc = "done", !.decision = "block"]

\* An exception leaves duo2fa_filter
Raise(f, exc) == [f EXCEPT !.pc = "done", !.decision = exc]

\* Lines 258-261: parse the arguments, return at once on a dry run.
GateCall(c, a, u, d) ==
    /\ frame.pc = "idle"
    /\ email_hits < MaxCount
    /\ email_misses < MaxCount
    /\ LET p == parse_2fa_args(a)
           f == [IdleFrame EXCEPT !.cmd = c, !.raw = a, !.user_id = u,
                                  !.dry_run = d, !.args = p.args,
                                  !.twofa_method = p.method]
       IN  frame' = IF p.raised THEN Raise(f, "ValueError")
                    ELSE IF d THEN Proceed(f)
                    ELSE [f EXCEPT !.pc = "stored_enter"]
    /\ UNCHANGED <<store, mode, email_cache, email_hits, email_misses,
                   preauth_cache, mut, committed, boots>>

\* Line 263, stored(): value = self[key]
GateStoredEnter ==
    /\ frame.pc = "stored_enter"
    /\ frame' = [frame EXCEPT !.pc = "stored_exit",
                              !.filtered_commands = store]
    /\ UNCHANGED <<store, mode, email_cache, email_hits, email_misses,
                   preauth_cache, mut, committed, boots>>

\* Lines 264-280: the membership test, stored()'s write-back on leaving the
\* with block, and the test for a missing --2fa.
GateStoredExit ==
    /\ frame.pc = "stored_exit"
    /\ store' = frame.filtered_commands
    /\ frame' =
         IF frame.cmd \notin frame.filtered_commands
         THEN Proceed(frame)
         ELSE IF /\ frame.twofa_method = None
                 /\ ~Contains(frame.args, TWOFA \o <<SPACE>>)
         THEN Block(Send(frame, "need_2fa", ""))
         ELSE [frame EXCEPT !.pc = "email_lookup"]
    /\ UNCHANGED <<mode, email_cache, email_hits, email_misses,
                   preauth_cache, mut, committed, boots>>

\* Lines 286-295: the test for "Unsupported Backend".  self.send is called
\* with the keyword test= (line 290), which BotPlugin.send does not take:
\* the call raises TypeError before anything is sent.
AfterEmail(f) ==
    IF f.user_email = "Unsupported Backend"
    THEN Raise(f, "TypeError")
    ELSE [f EXCEPT !.pc = "preauth_lookup"]

\* History kept in the call's frame (no part of the program): the caches
\* whose oldest entry this call's store is about to replace.
NoteEvict(f, name, cache, maxsize, key) ==
    IF ~LruHas(cache, key) /\ Len(cache) >= maxsize
    THEN [f EXCEPT !.evicted = @ \cup {name}] ELSE f

\* Line 284: self.get_user_email(user_id), the cache's lookup.
GateEmailLookup ==
    /\ frame.pc = "email_lookup"
    /\ IF LruHas(email_cache, frame.user_id)
       THEN /\ email_cache' = LruTouch(email_cache, frame.user_id)
            /\ email_hits' = email_hits + 1
            /\ email_misses' = email_misses
            /\ frame' = AfterEmail([frame EXCEPT
                                      !.user_email =
                                          LruValue(email_cache, frame.user_id),
                                      !.calls = @ \cup {"get_user_email"}])
       ELSE /\ email_misses' = email_misses + 1
            /\ frame' = [frame EXCEPT !.pc = "email_call",
                                      !.calls = @ \cup {"get_user_email"}]
            /\ UNCHANGED <<email_cache, email_hits>>
    /\ UNCHANGED <<store, mode, preauth_cache, mut, committed, boots>>

\* get_user_email's outcomes for a user, by bot mode (lines 417-436)
get_user_email(bot_mode, user) ==
    IF bot_mode = "test" THEN {"test@test.com"}
    ELSE IF bot_mode = "slack" THEN {SlackEmail(user), "Slack Error"}
    ELSE {"Unsupported Backend"}

\* The body of get_user_email runs (a cache miss).
GateEmailCall ==
    /\ frame.pc = "email_call"
    /\ \E email \in get_user_email(mode, frame.user_id) :
         frame' = [frame EXCEPT !.pc = "email_store", !.user_email = email,
                                !.calls = @ \cup {"resolver"}]
    /\ UNCHANGED <<store, mode, email_cache, email_hits, email_misses,
                   preauth_cache, mut, committed, boots>>

\* GateEmailStore keeping addresses only: "Slack Error" and "Unsupported
\* Backend" are returned and not stored.
GateEmailStore_skipsErrors ==
    /\ frame.pc = "email_store"
    /\ email_cache' =
         IF frame.user_email \in {"Slack Error", "Unsupported Backend"}
         THEN email_cache
         ELSE LruInsert(email_cache, EmailCacheSize, frame.user_id,
                        frame.user_email)
    /\ frame' = AfterEmail(frame)
    /\ UNCHANGED <<store, mode, email_hits, email_misses, preauth_cache,
                   mut, committed, boots>>

\* The cache stores what get_user_email returned.
GateEmailStore ==
    /\ frame.pc = "email_store"
    /\ email_cache' = LruInsert(email_cache, EmailCacheSize, frame.user_id,
                                frame.user_email)
    /\ frame' = AfterEmail(NoteEvict(frame, "email", email_cache,
                                      EmailCacheSize, frame.user_id))
    /\ UNCHANGED <<store, mode, email_hits, email_misses, preauth_cache,
                   mut, committed, boots>>

\* PreauthBranch with the step-up also run for a user duo allows.
PreauthBranch_authOnAllow(f) ==
    IF f.user_preauth = "deny"
    THEN Block(Send(f, "preauth_deny", f.message))
    ELSE IF f.user_preauth = "enroll"
    THEN Block(Send(f, "not_enrolled", f.user_email))
    ELSE IF f.user_preauth \in {"allow", "auth"}
    THEN [f EXCEPT !.pc = "auth_call"]
    ELSE Block(f)

\* PreauthBranch with the last line returning msg, cmd, args: a result that
\* matches no branch lets the command run.
PreauthBranch_failOpen(f) ==
    IF f.user_preauth = "deny"
    THEN Block(Send(f, "preauth_deny", f.message))
    ELSE IF f.user_preauth = "enroll"
    THEN Block(Send(f, "not_enrolled", f.user_email))
    ELSE IF f.user_preauth = "allow"
    THEN Proceed(f)
    ELSE IF f.user_preauth = "auth"
    THEN [f EXCEPT !.pc = "auth_call"]
    ELSE Proceed(f)

\* Lines 308-336 and 360: what the filter does with a preauth result.
PreauthBranch(f) ==
    IF f.user_preauth = "deny"
    THEN Block(Send(f, "preauth_deny", f.message))
    ELSE IF f.user_preauth = "enroll"
    THEN Block(Send(f, "not_enrolled", f.user_email))
    ELSE IF f.user_preauth = "allow"
    THEN Proceed(f)
    ELSE IF f.user_preauth = "auth"
    THEN [f EXCEPT !.pc = "auth_call"]
    ELSE Block(f)

\* Lines 299-306: the handler of preauth_user's RuntimeError
PreauthFailed(f) == Block(Send(f, "duo_error", f.error))

\* Line 298: self.preauth_user(user_email), the cache's lookup.
GatePreauthLookup ==
    /\ frame.pc = "preauth_lookup"
    /\ IF LruHas(preauth_cache, frame.user_email)
       THEN /\ preauth_cache' = LruTouch(preauth_cache, frame.user_email)
            /\ LET v == LruValue(preauth_cache, frame.user_email)
               IN  frame' = PreauthBranch([frame EXCEPT
                                             !.user_preauth = v.result,
                                             !.message = v.status_msg,
                                             !.calls = @ \cup {"preauth_user"}])
       ELSE /\ frame' = [frame EXCEPT !.pc = "preauth_call",
                                      !.calls = @ \cup {"preauth_user"}]
            /\ UNCHANGED preauth_cache
    /\ UNCHANGED <<store, mode, email_cache, email_hits, email_misses,
                   mut, committed, boots>>

\* Lines 449-450: the body of preauth_user runs (a cache miss); duo's
\* preauth answers, or fails with RuntimeError.
GatePreauthCall ==
    /\ frame.pc = "preauth_call"
    /\ \/ \E r \in PreauthResults, m \in PreauthMsgs :
            frame' = [frame EXCEPT !.pc = "preauth_return",
                                   !.user_preauth = r, !.message = m,
                                   !.calls = @ \cup {"preauth"}]
       \/ frame' = [frame EXCEPT !.pc = "preauth_return",
                                 !.error = "RuntimeError",
                                 !.calls = @ \cup {"preauth"}]
    /\ UNCHANGED <<store, mode, email_cache, email_hits, email_misses,
                   preauth_cache, mut, committed, boots>>

\* The cache's wrapper ends: it stores what preauth_user returned, or lets
\* the RuntimeError through to the filter's handler.
GatePreauthReturn ==
    /\ frame.pc = "preauth_return"
    /\ preauth_cache' =
         LruStore(preauth_cache, PreauthCacheSize, frame.user_email,
                  frame.error # "none",
                  [result |-> frame.user_preauth,
                   status_msg |-> frame.message])
    /\ frame' = IF frame.error # "none" THEN PreauthFailed(frame)
                ELSE PreauthBranch(NoteEvict(frame, "preauth", preauth_cache,
                                             PreauthCacheSize,
                                             frame.user_email))
    /\ UNCHANGED <<store, mode, email_cache, email_hits, email_misses,
                   mut, committed, boots>>

\* AuthBranch testing only for deny: every other auth result lets the
\* command run.
AuthBranch_unlessDeny(f) ==
    IF f.twofa_result = "deny"
    THEN Block(Send(f, "auth_failed", f.message))
    ELSE Proceed(f)

\* Lines 349-360: what the filter does with an auth result.
AuthBranch(f) ==
    IF f.twofa_result = "deny"
    THEN Block(Send(f, "auth_failed", f.message))
    ELSE IF f.twofa_result = "allow"
    THEN Proceed(f)
    ELSE Block(f)

\* Lines 338-347 and 462-463: duo's auth answers, or fails with RuntimeError.
GateAuthCall ==
    /\ frame.pc = "auth_call"
    /\ \/ \E r \in AuthResults, m \in AuthMsgs :
            frame' = AuthBranch([frame EXCEPT !.twofa_result = r,
                                              !.message = m,
                                              !.calls = @ \cup {"auth"}])
       \/ frame' = Block(Send([frame EXCEPT !.error = "RuntimeError",
                                            !.calls = @ \cup {"auth"}],
                              "duo_error", "RuntimeError"))
    /\ UNCHANGED <<store, mode, email_cache, email_hits, email_misses,
                   preauth_cache, mut, committed, boots>>

\* The call has returned (or raised); the filter is ready for the next one.
GateReturn ==
    /\ frame.pc = "done"
    /\ frame' = IdleFrame
    /\ UNCHANGED <<store, mode, email_cache, email_hits, email_misses,
                   preauth_cache, mut, committed, boots>>

\* ------------------------------------------------------------------------
\* Cache clears
\* ------------------------------------------------------------------------

\* History kept in the call's frame (no part of the program): the caches
\* that were cleared while the call's lookup of them was under way, between
\* its miss and its store.
NoteClear(f, cache, pcs) ==
    IF f.pc \in pcs THEN [f EXCEPT !.cleared = @ \cup {cache}] ELSE f

\* EmailCacheClear emptying the cache and leaving its counters.
EmailCacheClear_keepsCounters ==
    /\ email_cache' = <<>>
    /\ frame' = NoteClear(frame, "email", {"email_call", "email_store"})
    /\ UNCHANGED <<store, mode, email_hits, email_misses, preauth_cache,
                   mut, committed, boots>>

\* twofa_email_cache_clear: get_user_email.cache_clear()
EmailCacheClear ==
    /\ email_cache' = <<>>
    /\ email_hits' = 0
    /\ email_misses' = 0
    /\ frame' = NoteClear(frame, "email", {"email_call", "email_store"})
    /\ UNCHANGED <<store, mode, preauth_cache, mut, committed, boots>>

\* preauth_user.cache_clear()
PreauthCacheClear ==
    /\ preauth_cache' = <<>>
    /\ frame' = NoteClear(frame, "preauth",
                          {"preauth_call", "preauth_return"})
    /\ UNCHANGED <<store, mode, email_cache, email_hits, email_misses,
                   mut, committed, boots>>

\* ------------------------------------------------------------------------
\* preauth_user called on its own
\* ------------------------------------------------------------------------

\* plugin.preauth_user(user_email), called as the tests call it.
PreauthUserCall(e) ==
    /\ frame.pc = "idle"
    /\ frame' = [IdleFrame EXCEPT !.pc = "direct_lookup", !.user_email = e]
    /\ UNCHANGED <<store, mode, email_cache, email_hits, email_misses,
                   preauth_cache, mut, committed, boots>>

\* The cache's lookup: a hit returns the stored pair, a miss goes on to the
\* body of preauth_user.
PreauthUserLookup ==
    /\ frame.pc = "direct_lookup"
    /\ IF LruHas(preauth_cache, frame.user_email)
       THEN /\ preauth_cache' = LruTouch(preauth_cache, frame.user_email)
            /\ LET v == LruValue(preauth_cache, frame.user_email)
               IN  frame' = [frame EXCEPT !.pc = "done",
                                          !.decision = "returned",
                                          !.user_preauth = v.result,
                                          !.message = v.status_msg,
                                          !.calls = @ \cup {"preauth_user"}]
       ELSE /\ frame' = [frame EXCEPT !.pc = "direct_call",
                                      !.calls = @ \cup {"preauth_user"}]
            /\ UNCHANGED preauth_cache
    /\ UNCHANGED <<store, mode, email_cache, email_hits, email_misses,
                   mut, committed, boots>>

\* Lines 449-450: duo's preauth answers, or fails with RuntimeError.
PreauthUserBody ==
    /\ frame.pc = "direct_call"
    /\ \/ \E r \in CacheResults, m \in PreauthMsgs :
            frame' = [frame EXCEPT !.pc = "direct_return",
                                   !.user_preauth = r, !.message = m,
                                   !.calls = @ \cup {"preauth"}]
       \/ frame' = [frame EXCEPT !.pc = "direct_return",
                                 !.error = "RuntimeError",
                                 !.calls = @ \cup {"preauth"}]
    /\ UNCHANGED <<store, mode, email_cache, email_hits, email_misses,
                   preauth_cache, mut, committed, boots>>

\* The cache's wrapper ends: the pair is stored and returned, or the
\* RuntimeError goes to the caller.
PreauthUserReturn ==
    /\ frame.pc = "direct_return"
    /\ preauth_cache' =
         LruStore(preauth_cache, PreauthCacheSize, frame.user_email,
                  frame.error # "none",
                  [result |-> frame.user_preauth,
                   status_msg |-> frame.message])
    /\ frame' = IF frame.error # "none" THEN Raise(frame, frame.error)
                ELSE [NoteEvict(frame, "preauth", preauth_cache,
                                PreauthCacheSize, frame.user_email)
                        EXCEPT !.pc = "done", !.decision = "returned"]
    /\ UNCHANGED <<store, mode, email_cache, email_hits, email_misses,
                   mut, committed, boots>>

\* ------------------------------------------------------------------------
\* add_command / remove_command
\* ------------------------------------------------------------------------

\* stored() (lines 363-375) reads self[key], yields the value, and assigns it
\* back to self[key] when the with block is left; it takes no lock.  The
\* plugin store hands out a copy of the persisted value on each read, so
\* the read and the write-back are two steps that other threads' steps can
\* come between.

\* add_command, line 388: stored() reads self['filtered_commands']
AddEnter(m, c) ==
    /\ mut[m].pc = "idle"
    /\ mut' = [mut EXCEPT ![m] = [IdleMutator EXCEPT !.pc = "add",
                                                     !.command = c,
                                                     !.cmds = store]]
    /\ UNCHANGED <<store, mode, email_cache, email_hits, email_misses,
                   preauth_cache, frame, committed, boots>>

\* add_command, line 389: cmds.add(command) on the set stored() yielded.
\* value: the set afterwards; error: the exception that leaves add_command.
add_command(cmds, command) ==
    [value |-> cmds \cup {command}, error |-> "none"]

\* add_command, line 389 and stored()'s write-back.  The thread keeps the
\* set it read and the call's outcome until the call has returned.
AddExit(m) ==
    /\ mut[m].pc = "add"
    /\ LET r == add_command(mut[m].cmds, mut[m].command)
       IN  /\ store' = r.value
           /\ mut' = [mut EXCEPT ![m].pc = "added", ![m].error = r.error]
    /\ committed' = [committed EXCEPT ![mut[m].command] = "add"]
    /\ UNCHANGED <<mode, email_cache, email_hits, email_misses,
                   preauth_cache, frame, boots>>

\* remove_command, line 402: stored() reads self['filtered_commands']
RemoveEnter(m, c) ==
    /\ mut[m].pc = "idle"
    /\ mut' = [mut EXCEPT ![m] = [IdleMutator EXCEPT !.pc = "remove",
                                                     !.command = c,
                                                     !.cmds = store]]
    /\ UNCHANGED <<store, mode, email_cache, email_hits, email_misses,
                   preauth_cache, frame, committed, boots>>

\* remove_command with the KeyError of set.remove not caught: it leaves
\* remove_command (stored()'s finally still writes the set back).
remove_command_uncaught(cmds, command) ==
    [value |-> cmds \ {command},
     error |-> IF command \in cmds THEN "none" ELSE "KeyError"]

\* remove_command, lines 403-406: cmds.remove(command) on the set stored()
\* yielded; the KeyError for an absent name is caught and logged.
remove_command(cmds, command) ==
    [value |-> cmds \ {command}, error |-> "none"]

\* remove_command, lines 403-406 and stored()'s write-back
RemoveExit(m) ==
    /\ mut[m].pc = "remove"
    /\ LET r == remove_command(mut[m].cmds, mut[m].command)
       IN  /\ store' = r.value
           /\ mut' = [mut EXCEPT ![m].pc = "removed", ![m].error = r.error]
    /\ committed' = [committed EXCEPT ![mut[m].command] = "remove"]
    /\ UNCHANGED <<mode, email_cache, email_hits, email_misses,
                   preauth_cache, frame, boots>>

\* add_command / remove_command has returned to its caller.
MutatorReturn(m) ==
    /\ mut[m].pc \in {"added", "removed"}
    /\ mut' = [mut EXCEPT ![m] = IdleMutator]
    /\ UNCHANGED <<store, mode, email_cache, email_hits, email_misses,
                   preauth_cache, frame, committed, boots>>

\* ------------------------------------------------------------------------
\* activate
\* ------------------------------------------------------------------------

\* The plugin's storage with no 'filtered_commands' key
Absent == {"<no filtered_commands>"}

\* Lines 53-54: the value of self['filtered_commands'] after activate().
activate(persisted) == IF persisted = Absent THEN {} ELSE persisted

\* The bot is stopped and started again: the calls under way and the caches
\* (memory of the old process) are gone, the plugin's storage stays, and
\* activate() runs.
Restart ==
    /\ boots < MaxBoots
    /\ boots' = boots + 1
    /\ store' = activate(store)
    /\ frame' = IdleFrame
    /\ mut' = [m \in Mutators |-> IdleMutator]
    /\ email_cache' = <<>>
    /\ email_hits' = 0
    /\ email_misses' = 0
    /\ preauth_cache' = <<>>
    /\ UNCHANGED <<mode, committed>>

\* ------------------------------------------------------------------------
\* Specifications
\* ------------------------------------------------------------------------

\* The command filter, called for one command after another, and the
\* operators' cache clears.
Next ==
    \/ \E c \in Cmds, a \in GateArgs, u \in Users, d \in BOOLEAN :
         GateCall(c, a, u, d)
    \/ GateStoredEnter
    \/ GateStoredExit
    \/ GateEmailLookup
    \/ GateEmailCall
    \/ GateEmailStore
    \/ GatePreauthLookup
    \/ GatePreauthCall
    \/ GatePreauthReturn
    \/ GateAuthCall
    \/ GateReturn
    \/ EmailCacheClear
    \/ PreauthCacheClear

Spec == Init /\ [][Next]_vars

\* Threads adding and removing commands concurrently.
NextRegistry ==
    \/ \E m \in Mutators, c \in Cmds : AddEnter(m, c)
    \/ \E m \in Mutators : AddExit(m)
    \/ \E m \in Mutators, c \in Cmds : RemoveEnter(m, c)
    \/ \E m \in Mutators : RemoveExit(m)
    \/ \E m \in Mutators : MutatorReturn(m)

SpecRegistry == Init /\ [][NextRegistry]_vars

\* add_command / remove_command called one after the other: a call starts
\* when no other is running.
SeqAddEnter(m, c) ==
    /\ \A n \in Mutators : mut[n].pc = "idle"
    /\ AddEnter(m, c)

SeqRemoveEnter(m, c) ==
    /\ \A n \in Mutators : mut[n].pc = "idle"
    /\ RemoveEnter(m, c)

NextRegistrySeq ==
    \/ \E m \in Mutators, c \in Cmds : SeqAddEnter(m, c)
    \/ \E m \in Mutators : AddExit(m)
    \/ \E m \in Mutators, c \in Cmds : SeqRemoveEnter(m, c)
    \/ \E m \in Mutators : RemoveExit(m)
    \/ \E m \in Mutators : MutatorReturn(m)

SpecRegistrySeq == Init /\ [][NextRegistrySeq]_vars

\* A direct call of parse_2fa_args, as the tests make it: the frame holds
\* the argument, and the method and arguments returned (or ValueError).
ParseCall(a) ==
    /\ frame.pc = "idle"
    /\ LET p == parse_2fa_args(a)
       IN  frame' = [IdleFrame EXCEPT
                       !.pc = "done", !.raw = a, !.args = p.args,
                       !.twofa_method = p.method,
                       !.decision = IF p.raised THEN "ValueError"
                                    ELSE "returned"]
    /\ UNCHANGED <<store, mode, email_cache, email_hits, email_misses,
                   preauth_cache, mut, committed, boots>>

NextParse ==
    \/ \E a \in ParseArgs : ParseCall(a)
    \/ GateReturn

SpecParse == Init /\ [][NextParse]_vars

\* The filter's registry lookup (calls with no --2fa, which end at the
\* lookup or right after it) while other threads add and remove commands.
NextGateRegistry ==
    \/ \E c \in Cmds : GateCall(c, ArgS, "u1", FALSE)
    \/ GateStoredEnter
    \/ GateStoredExit
    \/ GateReturn
    \/ \E c \in Cmds : AddEnter("a1", c)
    \/ AddExit("a1")
    \/ \E c \in Cmds : RemoveEnter("a1", c)
    \/ RemoveExit("a1")
    \/ MutatorReturn("a1")

SpecGateRegistry == Init /\ [][NextGateRegistry]_vars

\* The plugin's first activation finds no persisted set and creates it.
InitRestart ==
    /\ Init
    /\ store = activate(Absent)
    /\ mode = "test"

\* The filter, add_command and remove_command on their threads, and
\* restarts of the bot.
NextRestart ==
    \/ NextGateRegistry
    \/ Restart

SpecRestart == InitRestart /\ [][NextRestart]_vars

\* preauth_user called on its own for one address after another, and the
\* cache's clears.
InitCache ==
    /\ Init
    /\ store = {}
    /\ mode = "test"

NextCache ==
    \/ \E e \in CacheEmails : PreauthUserCall(e)
    \/ PreauthUserLookup
    \/ PreauthUserBody
    \/ PreauthUserReturn
    \/ GateReturn
    \/ PreauthCacheClear

SpecCache == InitCache /\ [][NextCache]_vars

\* ------------------------------------------------------------------------
\* Properties
\* ------------------------------------------------------------------------

\* The filter call has ended.
Done == frame.pc = "done"

\* The call's command is in the filtered-command registry.
Filtered == frame.cmd \in store

\* preauth_user raised RuntimeError in this call.
PreauthRaised ==
    /\ "preauth" \in frame.calls
    /\ frame.user_preauth = Unset

\* auth_user raised RuntimeError in this call.
AuthRaised ==
    /\ "auth" \in frame.calls
    /\ frame.twofa_result = Unset

\* The network calls: none of the lookups, the resolver, preauth or auth ran.
NoCalls == frame.calls = {}

\* C1: a call that is no dry run, on a filtered command, proceeds only if
\* the preauth result it used was allow, or was auth and its own auth call
\* returned allow; with preauth deny or enroll, a failed provider call or an
\* auth deny it blocks.
C1_ProceedOnlyWhenAuthorized ==
    (Done /\ ~frame.dry_run /\ Filtered) =>
        /\ frame.decision = "proceed" =>
               \/ frame.user_preauth = "allow"
               \/ /\ frame.user_preauth = "auth"
                  /\ "auth" \in frame.calls
                  /\ frame.twofa_result = "allow"
        /\ frame.user_preauth \in {"deny", "enroll"} =>
               frame.decision = "block"
        /\ (PreauthRaised \/ AuthRaised) => frame.decision = "block"
        /\ frame.twofa_result = "deny" => frame.decision = "block"

\* C1 witness: a filtered command proceeds after preauth auth and auth allow.
C1_Witness ==
    /\ Done /\ ~frame.dry_run /\ Filtered
    /\ frame.decision = "proceed"
    /\ frame.user_preauth = "auth"
    /\ frame.twofa_result = "allow"

\* C2 (as claimed): a call on a command that is not in the registry
\* proceeds, whatever its arguments, and makes no resolver, preauth or auth
\* call.
C2_UnfilteredAlwaysProceeds ==
    (Done /\ ~Filtered) => (frame.decision = "proceed" /\ NoCalls)

\* C3 (as claimed): a dry run on a filtered command proceeds and makes no
\* resolver, preauth or auth call.
C3_DryRunAlwaysProceeds ==
    (Done /\ frame.dry_run /\ Filtered) =>
        (frame.decision = "proceed" /\ NoCalls)

\* The arguments hold no word --2fa.
NoSelector(args) == Index(Split(args), TWOFA) = 0

\* C4 (as claimed): a call that is no dry run, on a filtered command, with
\* no --2fa word in its arguments blocks with the message that asks for
\* --2fa, and makes no resolver, preauth or auth call.
C4_NoSelectorBlocks ==
    (Done /\ ~frame.dry_run /\ Filtered /\ NoSelector(frame.raw)) =>
        /\ frame.decision = "block"
        /\ frame.sent = <<[kind |-> "need_2fa", detail |-> ""]>>
        /\ NoCalls

\* C5: within a call, auth is called only when the preauth result of that
\* call is auth; with deny, enroll, allow or a failed preauth there is no
\* auth call.
C5_AuthOnlyAfterPreauthAuth ==
    "auth" \in frame.calls =>
        /\ frame.user_preauth = "auth"
        /\ "preauth_user" \in frame.calls

\* C5 witness: a call that has made its auth call.
C5_Witness ==
    /\ Done
    /\ "auth" \in frame.calls
    /\ frame.user_preauth = "auth"

\* C6: a preauth result other than allow, deny, enroll, auth, or an auth
\* result other than allow, deny, blocks the filtered command.
C6_FailClosed ==
    (/\ Done /\ ~frame.dry_run /\ Filtered
     /\ \/ frame.user_preauth \notin
               {"allow", "deny", "enroll", "auth", Unset}
        \/ frame.twofa_result \notin {"allow", "deny", Unset})
    => frame.decision = "block"

\* C6 witness: a call blocked on an unknown preauth result.
C6_Witness ==
    /\ Done /\ ~frame.dry_run /\ Filtered
    /\ frame.user_preauth = "pass"
    /\ frame.decision = "block"

\* C7: a failed preauth is not stored: the cache holds results only, and
\* when a call ends on a failed preauth the cache has no entry for that
\* address, so the next preauth for it misses and asks duo again.
C7_PreauthFailureNotCached ==
    /\ \A i \in 1..Len(preauth_cache) :
           preauth_cache[i].val.result \in PreauthResults
    /\ (Done /\ PreauthRaised) =>
           ~LruHas(preauth_cache, frame.user_email)

\* C7 witness: a call ended on a failed preauth while the cache holds the
\* result of another address.
C7_Witness ==
    /\ Done /\ PreauthRaised
    /\ frame.decision = "block"
    /\ preauth_cache # <<>>

\* C8 (as claimed): every call ends in Proceed or Block; no exception
\* leaves the filter.
C8_AlwaysADecision ==
    Done => frame.decision \in {"proceed", "block"}

\* C9 (as claimed): when get_user_email gives "Unsupported Backend" the
\* call blocks, the caller gets the fatal-configuration message, and no
\* preauth or auth call is made.
C9_UnsupportedBlocksWithMessage ==
    (Done /\ frame.user_email = "Unsupported Backend") =>
        /\ frame.decision = "block"
        /\ frame.sent = <<[kind |-> "unsupported_backend", detail |-> ""]>>
        /\ frame.calls \cap {"preauth_user", "preauth", "auth"} = {}

\* C10 (as claimed): once the running add_command / remove_command calls
\* have ended, every name whose last write-back was an add is in the
\* persisted set and none whose last write-back was a remove.
C10_NoLostUpdate ==
    (\A m \in Mutators : mut[m].pc = "idle") =>
        \A c \in Cmds :
            /\ committed[c] = "add" => c \in store
            /\ committed[c] = "remove" => c \notin store

\* C11 (as claimed): a cache cleared while a lookup of it is under way
\* (the lookup has missed and has not stored yet) is empty after the clear
\* and stays empty as long as no later lookup has started: the lookup under
\* way stores nothing into it.
C11_ClearNeverRacesLookup ==
    /\ "email" \in frame.cleared => email_cache = <<>>
    /\ "preauth" \in frame.cleared => preauth_cache = <<>>

\* An add_command / remove_command call of thread m has ended.
Added(m) == mut[m].pc = "added"

Removed(m) == mut[m].pc = "removed"

\* C12: with the calls made one after the other, from any registry state:
\* after add(name) the persisted set is the set before plus name, so name
\* is in it, and adding a name already there leaves the set as it was;
\* after remove(name) name is not in it; remove of an absent name raises
\* nothing and leaves the set as it was.
C12_RegistryAlgebra ==
    \A m \in Mutators :
        /\ Added(m) =>
               /\ mut[m].command \in store
               /\ store = mut[m].cmds \cup {mut[m].command}
               /\ mut[m].command \in mut[m].cmds => store = mut[m].cmds
               /\ mut[m].error = "none"
        /\ Removed(m) =>
               /\ mut[m].command \notin store
               /\ store = mut[m].cmds \ {mut[m].command}
               /\ mut[m].command \notin mut[m].cmds => store = mut[m].cmds
               /\ mut[m].error = "none"

\* C12 witness: a remove of a name that was not in the registry has ended.
C12_Witness ==
    \E m \in Mutators :
        /\ Removed(m)
        /\ mut[m].command \notin mut[m].cmds
        /\ store = mut[m].cmds
        /\ store # {}

\* C20 (as claimed): no step of the filter changes the persisted set, also
\* when an add or remove wrote back while the filter call was under way.
C20_GateLeavesRegistryAlone ==
    [][frame' # frame => store' = store]_vars

\* The words of a string: what is left between its spaces.
Words(s) == SelectSeq(Split(s), LAMBDA t : t # <<>>)

\* The method the claim gives for the words ws with --2fa at position i
ClaimedMethod(ws, i) ==
    IF i = Len(ws) \/ StartsWith(ws[i + 1], DASHDASH)
    THEN AUTO
    ELSE Lower(ws[i + 1])

\* The words the claim leaves for the words ws with --2fa at position i
ClaimedRest(ws, i) ==
    IF i = Len(ws) \/ StartsWith(ws[i + 1], DASHDASH)
    THEN Del(ws, i)
    ELSE Del(Del(ws, i + 1), i)

\* C13 (as claimed): for arguments whose words include --2fa, the method is
\* auto and only --2fa is removed when --2fa is the last word or the next
\* word starts with --; else the method is the next word lower-cased and
\* both are removed; the other words come back unchanged, in order, with
\* single spaces between them.
C13_ParseSelector ==
    (/\ Done
     /\ frame.decision \in {"returned", "ValueError"}
     /\ Index(Words(frame.raw), TWOFA) # 0)
    => LET ws == Words(frame.raw)
           i == Index(ws, TWOFA)
       IN  /\ frame.decision = "returned"
           /\ frame.twofa_method = ClaimedMethod(ws, i)
           /\ frame.args = Join(ClaimedRest(ws, i))

\* C14 (as claimed): the arguments a Proceed hands on hold no word --2fa.
C14_NoSelectorLeak ==
    (Done /\ frame.decision = "proceed") => NoSelector(frame.args)

\* The entries of a cache under a key (at most one).
Cached(cache, key) == {cache[i].val : i \in {j \in 1..Len(cache) : cache[j].key = key}}

\* The step stores the result of a preauth_user call that ended normally.
PreauthStoreStep ==
    /\ frame.pc \in {"direct_return", "preauth_return"}
    /\ frame.error = "none"
    /\ frame'.pc # frame.pc

ValuesStay(cache, cacheNext) ==
    \A i \in 1..Len(cache) :
        Cached(cacheNext, cache[i].key) \subseteq {cache[i].val}

\* The step is the call's lookup of the preauth cache.
PreauthLookupStep ==
    /\ frame.pc \in {"direct_lookup", "preauth_lookup"}
    /\ frame'.pc # frame.pc

\* C16: an address in the preauth cache keeps its pair; a lookup of it
\* returns that pair (the first verdict and message) and makes no call of
\* duo's preauth; duo's preauth is called only for an address the cache
\* does not hold.
C16_CachedPreauthNotRepeated ==
    [][/\ ValuesStay(preauth_cache, preauth_cache')
       /\ ("preauth" \in frame'.calls /\ "preauth" \notin frame.calls)
            => Cached(preauth_cache, frame.user_email) = {}
       /\ (PreauthLookupStep
            /\ Cached(preauth_cache, frame.user_email) # {})
            => /\ [result |-> frame'.user_preauth,
                    status_msg |-> frame'.message]
                     \in Cached(preauth_cache, frame.user_email)
               /\ "preauth" \notin frame'.calls
               /\ frame'.pc \notin {"direct_call", "preauth_call"}]_vars

\* A preauth_user call was answered from the cache: it returned the pair
\* the cache holds and duo's preauth was not called.
C16_Witness ==
    /\ Done
    /\ frame.decision = "returned"
    /\ frame.calls = {"preauth_user"}
    /\ Cached(preauth_cache, frame.user_email)
         = {[result |-> frame.user_preauth, status_msg |-> frame.message]}
    /\ Len(preauth_cache) > 1

\* The step is the call's lookup of the identity cache.
EmailLookupStep ==
    /\ frame.pc = "email_lookup"
    /\ frame'.pc # frame.pc

\* The step stores what get_user_email returned.
EmailStoreStep ==
    /\ frame.pc = "email_store"
    /\ frame'.pc # frame.pc

\* C17: a lookup of a key the identity cache does not hold raises the miss
\* count by 1 and its store raises the size by 1; a lookup of a key it
\* holds raises the hit count by 1 and leaves the size; hits, misses and
\* size fall only together, to 0 (the clear).
C17_EmailCacheCounters ==
    [][/\ (EmailLookupStep /\ Cached(email_cache, frame.user_id) = {})
            => /\ email_misses' = email_misses + 1
               /\ email_hits' = email_hits
               /\ Len(email_cache') = Len(email_cache)
               /\ frame'.pc = "email_call"
       /\ (EmailStoreStep /\ Cached(email_cache, frame.user_id) = {}
            /\ Len(email_cache) < EmailCacheSize)
            => /\ Len(email_cache') = Len(email_cache) + 1
               /\ email_misses' = email_misses
               /\ email_hits' = email_hits
       /\ (EmailLookupStep /\ Cached(email_cache, frame.user_id) # {})
            => /\ email_hits' = email_hits + 1
               /\ email_misses' = email_misses
               /\ Len(email_cache') = Len(email_cache)
       /\ (\/ email_hits' < email_hits
           \/ email_misses' < email_misses
           \/ Len(email_cache') < Len(email_cache))
            => /\ email_hits' = 0
               /\ email_misses' = 0
               /\ Len(email_cache') = 0]_vars

\* A key was looked up twice: one miss, one hit, one entry.
C17_Witness ==
    /\ Done
    /\ frame.calls \cap {"get_user_email", "resolver"} = {"get_user_email"}
    /\ email_misses = 1
    /\ email_hits = 1
    /\ Len(email_cache) = 1

\* C18: whatever get_user_email returned (an address, "Slack Error" or
\* "Unsupported Backend") is stored under the caller's id and stays while
\* the id is in the cache; a lookup of an id the cache holds returns the
\* stored outcome and does not run the resolver, which runs only for an id
\* the cache does not hold.
C18_AllOutcomesCached ==
    [][/\ ValuesStay(email_cache, email_cache')
       /\ EmailStoreStep
            => Cached(email_cache', frame.user_id) = {frame.user_email}
       /\ ("resolver" \in frame'.calls /\ "resolver" \notin frame.calls)
            => Cached(email_cache, frame.user_id) = {}
       /\ (EmailLookupStep /\ Cached(email_cache, frame.user_id) # {})
            => /\ frame'.user_email \in Cached(email_cache, frame.user_id)
               /\ "resolver" \notin frame'.calls
               /\ frame'.pc # "email_call"]_vars

\* A lookup was answered "Slack Error" from the cache, the resolver not run.
C18_Witness ==
    /\ Done
    /\ frame.calls \cap {"get_user_email", "resolver"} = {"get_user_email"}
    /\ frame.user_email = "Slack Error"
    /\ Cached(email_cache, frame.user_id) = {"Slack Error"}

\* The step is the write-back of an add_command or a remove_command call.
MutatorWrite ==
    \E m \in Mutators :
        /\ mut[m].pc \in {"add", "remove"}
        /\ mut'[m].pc \in {"added", "removed"}

\* C19: a restart leaves the persisted set as it is (a name in it before
\* is in it after the re-activation), and the set changes only in the
\* write-back of add_command or remove_command.
C19_RegistrySurvivesRestart ==
    [][/\ boots' # boots => store' = store
       /\ store' # store => MutatorWrite]_vars

\* C21 (as claimed): for arguments with no word --2fa, also when --2fa is
\* part of a longer word, parse_2fa_args returns None and the arguments
\* unchanged.
C21_NoSelectorUnchanged ==
    (/\ Done
     /\ frame.decision \in {"returned", "ValueError"}
     /\ NoSelector(frame.raw))
    => /\ frame.decision = "returned"
       /\ frame.twofa_method = None
       /\ frame.args = frame.raw

\* The factors auth_user's documentation names (line 454)
AuthMethods ==
    {AUTO, <<"p", "u", "s", "h">>, <<"p", "h", "o", "n", "e">>,
     <<"s", "m", "s">>}

\* C22 (as claimed): when the filter is about to call auth_user, or has
\* called it, the factor it passes is auto, push, phone or sms.
C22_FactorIsAuthMethod ==
    (frame.pc = "auth_call" \/ "auth" \in frame.calls)
        => frame.twofa_method \in AuthMethods

\* C23 (as claimed): a call that ends in a block has sent exactly one
\* message to the caller, also when the block is for a preauth or auth
\* result the filter has no branch for.
C23_BlockHasOneMessage ==
    (Done /\ frame.decision = "block") => Len(frame.sent) = 1

\* The values get_user_email returns when it found no address
NotResolved == {"Slack Error", "Unsupported Backend"}

\* C24 (as claimed): the preauth lookup, duo's preauth and duo's auth are
\* reached only with an address the resolver found, never with "Slack
\* Error" or "Unsupported Backend" in the place of the address.
C24_PreauthOnlyResolved ==
    (\/ frame.pc \in {"preauth_lookup", "preauth_call", "preauth_return",
                      "auth_call"}
     \/ frame.calls \cap {"preauth_user", "preauth", "auth"} # {})
        => frame.user_email \notin NotResolved
====
